---- MODULE Spec2Model ----
(***************************************************************************)
(* Model of Pose2Sim/synchronization.py: the offset estimator              *)
(* time_lagged_cross_corr (SpecCorr), the reading of one detection file    *)
(* by convert_json2pandas (SpecFrame), the gap filling of one coordinate   *)
(* column (SpecColumn) and the batch run synchronize_cams_all (Spec).      *)
(*                                                                         *)
(* Numbers.  Frame indices, frame counts and offsets are integers, as in   *)
(* the code.  A Pearson correlation is kept exactly, as the pair (num,     *)
(* den) standing for num / sqrt(den), so that comparing two correlations   *)
(* and testing one against 1 involve no rounding; an undefined correlation *)
(* (NaN) is a value of its own.  A series cell is <<v>> (a number) or      *)
(* <<>> (NaN).                                                             *)
(*                                                                         *)
(* Scale.  The Butterworth filtering (signal.filtfilt) and the keypoint    *)
(* arithmetic are not computed: a camera's motion signal is any sequence   *)
(* with one value per row of its table.  Windows of a few frames stand for *)
(* the windows of real recordings.                                         *)
(*                                                                         *)
(* Cameras are counted from 1 (the code counts from 0); frame indices are  *)
(* the code's.                                                             *)
(***************************************************************************)
EXTENDS Integers, Sequences, FiniteSets, TLC

\* ------------------------------------------------------------ bounds
\* Estimator alone: longest signal and largest lag half-width.
MaxLen == 4
MaxLag == 2
\* Batch run: number of cameras and most detection files per camera.
NumCams == 2
MaxFrames == 3
\* One detection file: most people in it.
MaxPeople == 2
\* One coordinate column: most rows.
MaxRows == 4

\* Index of a camera's first detection file (frame numbering from 0 or from 1).
FirstFrames == {0, 1}
\* Values a sample of a camera's motion signal takes in the batch run.
SpeedValues == {0, 1}
\* project.frame_rate values tried.
FpsChoices == {1, 2}
\* Entries of approx_time_maxspeed, and values of time_range_around_maxspeed,
\* in half seconds.
HalfSecondChoices == {0, 1, 2}
TimeRangeChoices == {1, 2}
\* keypoints_to_consider: "names" stands for a list of keypoint names, "other"
\* for any value that is none of the four the code accepts.
KeypointChoices == {"all", "names", "other"}

\* Values a motion-signal sample takes in the model.
SignalValues == {0, 1, 2}

\* keypoints_ids: the positions, in a person's keypoint array, of the
\* keypoints of the skeleton model.
keypoints_ids == <<1, 2>>
\* Pixel positions (x, y) a detected keypoint takes.
Points == {<<0, 0>>, <<1, 1>>, <<2, 1>>}
\* Detection confidences, and values of likelihood_threshold, on one scale.
Confidences == {0, 1}
LikelihoodThresholds == {0, 1}
\* Values of a cell of a coordinate column besides NaN; 0 is the exact zero
\* of an undetected keypoint.
CoordValues == {0, 1, 2}

\* ------------------------------------------------------------ helpers
Min2(a, b) == IF a < b THEN a ELSE b

Max2(a, b) == IF a > b THEN a ELSE b

Sign(n) == IF n > 0 THEN 1 ELSE IF n < 0 THEN 0 - 1 ELSE 0

RECURSIVE SumSeq(_)
SumSeq(s) == IF s = <<>> THEN 0 ELSE Head(s) + SumSeq(Tail(s))

\* All sequences over S of length 0..n.
SeqsUpTo(S, n) == UNION {[1..k -> S] : k \in 0..n}

\* ------------------------------------------------------------ pandas / numpy
\* A pandas Series without NaN, as cells.
Lift(s) == [t \in 1..Len(s) |-> <<s[t]>>]

\* Series.shift(lag): the value of row t moves to row t + lag; rows that
\* receive nothing hold NaN; the index (and the length) is unchanged.
ShiftWrong(s, lag) == [t \in 1..Len(s) |-> IF (t + lag) \in 1..Len(s) THEN <<s[t + lag]>> ELSE <<>>]

Shift(s, lag) == [t \in 1..Len(s) |-> IF (t - lag) \in 1..Len(s) THEN <<s[t - lag]>> ELSE <<>>]

NaNCorr == [def |-> FALSE, num |-> 0, den |-> 1]

\* Rows of the inner join of the two indexes where both cells are numbers.
RECURSIVE ValidPairs(_, _, _)
ValidPairs(a, b, t) ==
    IF t > Min2(Len(a), Len(b)) THEN <<>>
    ELSE IF a[t] # <<>> /\ b[t] # <<>>
         THEN <<(<<a[t][1], b[t][1]>>)>> \o ValidPairs(a, b, t + 1)
         ELSE ValidPairs(a, b, t + 1)

\* Series.corr(other), Pearson: NaN cells are skipped pairwise; NaN when
\* fewer than two pairs remain or one side is constant on them.
Corr(a, b) ==
    LET ps == ValidPairs(a, b, 1)
        m == Len(ps)
        sx == SumSeq([i \in 1..m |-> ps[i][1]])
        sy == SumSeq([i \in 1..m |-> ps[i][2]])
        sxx == SumSeq([i \in 1..m |-> ps[i][1] * ps[i][1]])
        syy == SumSeq([i \in 1..m |-> ps[i][2] * ps[i][2]])
        sxy == SumSeq([i \in 1..m |-> ps[i][1] * ps[i][2]])
        vx == m * sxx - sx * sx
        vy == m * syy - sy * sy
        cxy == m * sxy - sx * sy
    IN  IF m < 2 \/ vx = 0 \/ vy = 0 THEN NaNCorr
        ELSE [def |-> TRUE, num |-> cxy, den |-> vx * vy]

\* r1 < r2 for two defined correlations num / sqrt(den).
CorrLess(r1, r2) ==
    Sign(r1.num) * r1.num * r1.num * r2.den < Sign(r2.num) * r2.num * r2.num * r1.den

CorrEq(r1, r2) == r1.def /\ r2.def /\ ~CorrLess(r1, r2) /\ ~CorrLess(r2, r1)

CorrIsOne(r) == r.def /\ r.num > 0 /\ r.num * r.num = r.den

ZeroCorr == [def |-> TRUE, num |-> 0, den |-> 1]

\* np.isnan(l).all()
IsNanAll(l) == \A i \in 1..Len(l) : ~l[i].def

\* np.argmax(l) of a non-empty list, 0-based: NaN counts as the maximum, so
\* the first NaN wins when there is one; otherwise the first maximum.
\* (np.argmax of an empty list raises; the caller models that.)
ArgMax(l) ==
    IF \E i \in 1..Len(l) : ~l[i].def
    THEN (CHOOSE i \in 1..Len(l) : ~l[i].def /\ \A j \in 1..(i - 1) : l[j].def) - 1
    ELSE (CHOOSE i \in 1..Len(l) : /\ \A j \in 1..Len(l) : ~CorrLess(l[i], l[j])
                                   /\ \A j \in 1..(i - 1) : CorrLess(l[j], l[i])) - 1

\* np.nanmax(l) of a list with at least one defined entry.
NanMax(l) ==
    LET D == {i \in 1..Len(l) : l[i].def}
    IN  l[CHOOSE i \in D : \A j \in D : ~CorrLess(l[i], l[j])]

\* ------------------------------------------------------------ time_lagged_cross_corr
\* range(lag_range[0], lag_range[1]) with lag_range = [-L, L]: empty when L <= 0.
LagsInclusive(lag_range) == [i \in 1..(2 * lag_range + 1) |-> i - 1 - lag_range]

Lags(lag_range) == [i \in 1..(2 * lag_range) |-> i - 1 - lag_range]

PearsonR(camx, camy, lag_range) ==
    LET lags == Lags(lag_range)
    IN  [i \in 1..Len(lags) |-> Corr(Lift(camx), Shift(camy, lags[i]))]

\* The result (offset, max_corr), or raised = TRUE when np.argmax is handed
\* the empty list (ValueError), which happens before the all-NaN test.
time_lagged_cross_corr(camx, camy, lag_range) ==
    LET pearson_r == PearsonR(camx, camy, lag_range)
    IN  IF pearson_r = <<>>
        THEN [raised |-> TRUE, offset |-> 0, max_corr |-> ZeroCorr]
        ELSE IF ~IsNanAll(pearson_r)
             THEN [raised |-> FALSE,
                   offset |-> (Len(pearson_r) \div 2) - ArgMax(pearson_r),
                   max_corr |-> NanMax(pearson_r)]
             ELSE [raised |-> FALSE, offset |-> 0, max_corr |-> ZeroCorr]

\* ------------------------------------------------------------ synchronize_cams_all: helpers
Cams == 1..NumCams

\* nb_frames_per_cam: the number of *.json files of each camera directory.
NbFramesPerCam(files) == [i \in 1..Len(files) |-> Len(files[i])]

SeqMin(s) == CHOOSE m \in {s[i] : i \in 1..Len(s)} : \A i \in 1..Len(s) : m <= s[i]

\* f_range: the configured frame_range, or [0, fewest files] when it is [].
FRange(frame_range, files) ==
    IF frame_range = <<>> THEN <<0, SeqMin(NbFramesPerCam(files))>> ELSE frame_range

\* int(fps * t) for t given in half seconds.
ApproxFrame(fps, t2) == (fps * t2) \div 2

\* One camera's window around approx_frame_maxspeed a, with lag_range =
\* time_range_around_maxspeed * fps given in half frames (lag2).
WindowAround(a, lag2, nb, f_start) ==
    << IF 2 * a - lag2 > 0 THEN (2 * a - lag2) \div 2 ELSE 0,
       IF 2 * a + lag2 < 2 * nb THEN (2 * a + lag2) \div 2 ELSE nb + f_start >>

\* One camera's window when approx_time_maxspeed is "auto".
WindowAuto(nb, f_start) == <<f_start, f_start + nb>>

\* The files whose frame index lies in range(*frames_cam), in file order.
FilesInRange(files_cam, frames_cam) ==
    SelectSeq(files_cam, LAMBDA n : frames_cam[1] <= n /\ n < frames_cam[2])

\* np.array([j == [] for j in json_files_names_range]).any()
AllEmpty(ranges) == \A i \in 1..Len(ranges) : ranges[i] = <<>>

AnyEmpty(ranges) == \E i \in 1..Len(ranges) : ranges[i] = <<>>

\* The four accepted forms of keypoints_to_consider.
KeypointsValid(k) == k \in {"right", "left", "names", "all"}

\* nb_frames_per_cam.index(min(nb_frames_per_cam)), cameras counted from 1.
RefCamId(nb) == CHOOSE i \in 1..Len(nb) : nb[i] = SeqMin(nb) /\ \A j \in 1..(i - 1) : nb[j] # nb[i]

\* list.pop(idx) and list.insert(idx, val), positions counted from 1.
PopAt(s, idx) == [k \in 1..(Len(s) - 1) |-> IF k < idx THEN s[k] ELSE s[k + 1]]

InsertAtEnd(s, idx, val) == Append(s, val)

InsertAt(s, idx, val) ==
    [k \in 1..(Len(s) + 1) |-> IF k < idx THEN s[k] ELSE IF k = idx THEN val ELSE s[k - 1]]

\* offset_cam = offset_cam_section - (ref window start - camera window start)
OffsetCamAdded(section, ref_window, cam_window) == section + (ref_window[1] - cam_window[1])

OffsetCam(section, ref_window, cam_window) == section - (ref_window[1] - cam_window[1])

\* Decimal digits of n >= 0, most significant first.
RECURSIVE Digits(_)
Digits(n) == IF n < 10 THEN <<n>> ELSE Digits(n \div 10) \o <<n % 10>>

ZeroPad(ds, width) == [k \in 1..(Max2(width, Len(ds)) - Len(ds)) |-> 0] \o ds

\* f'{v:06d}': the sign, then the digits zero-padded so that sign and digits
\* together fill at least 6 characters.
Format06NoSign(v) == [neg |-> FALSE, digits |-> ZeroPad(Digits(IF v < 0 THEN 0 - v ELSE v), 6)]

Format06(v) ==
    IF v < 0 THEN [neg |-> TRUE, digits |-> ZeroPad(Digits(0 - v), 5)]
    ELSE [neg |-> FALSE, digits |-> ZeroPad(Digits(v), 6)]

RECURSIVE DigitsValue(_)
DigitsValue(ds) ==
    IF ds = <<>> THEN 0 ELSE 10 * DigitsValue(SubSeq(ds, 1, Len(ds) - 1)) + ds[Len(ds)]

\* int(text) of a formatted number.
ParseInt(text) == IF text.neg THEN 0 - DigitsValue(text.digits) ELSE DigitsValue(text.digits)

\* What the remapping loop copies for one camera: each file whose new index
\* is positive, under the name carrying the new index.
PublishedOf(d, files_cam, off) ==
    {[cam |-> d, src |-> files_cam[k], name |-> Format06(files_cam[k] - off)] :
        k \in {k \in 1..Len(files_cam) : ParseInt(Format06(files_cam[k] - off)) > 0}}

\* ------------------------------------------------------------ convert_json2pandas
\* A detection file is [ok, people]: ok = FALSE when json.load(...)['people']
\* fails; people is the list of detected persons.  A person is the sequence
\* of its keypoint triples <<x, y, confidence>>, or <<>> when it has no
\* 'pose_keypoints_2d' entry.
nb_coords == Len(keypoints_ids)

\* [np.nan] * nb_coords * 3
NanRecord == [k \in 1..(nb_coords * 3) |-> <<>>]

SetMax(S) == CHOOSE m \in S : \A n \in S : n <= m

SetMin(S) == CHOOSE m \in S : \A n \in S : m <= n

\* The triples of the keypoints of keypoints_ids, in that order.
Keypoints(p) == [i \in 1..nb_coords |-> p[keypoints_ids[i]]]

\* One entry of bbox_area: width x height over the person's keypoints, 0 for
\* a person without 'pose_keypoints_2d'.
BBoxArea(p) ==
    IF p = <<>> THEN 0
    ELSE LET xs == {Keypoints(p)[i][1] : i \in 1..nb_coords}
             ys == {Keypoints(p)[i][2] : i \in 1..nb_coords}
         IN  (SetMax(xs) - SetMin(xs)) * (SetMax(ys) - SetMin(ys))

\* np.argmax of a non-empty list of numbers, 0-based: the first maximum.
ArgMaxLast(l) ==
    (CHOOSE i \in 1..Len(l) :
        (\A j \in 1..Len(l) : l[j] <= l[i]) /\ (\A j \in (i + 1)..Len(l) : l[j] < l[i])) - 1

ArgMaxFirst(l) ==
    (CHOOSE i \in 1..Len(l) :
        (\A j \in 1..Len(l) : l[j] <= l[i]) /\ (\A j \in 1..(i - 1) : l[j] < l[i])) - 1

\* Line 443: a keypoint keeps its triple when its confidence is greater than
\* the threshold and becomes three NaN otherwise; then .ravel().tolist().
RemoveLowConfidence(json_data, likelihood_threshold) ==
    [k \in 1..(3 * Len(json_data)) |->
        LET j == json_data[((k - 1) \div 3) + 1]
        IN  IF j[3] > likelihood_threshold THEN <<j[((k - 1) % 3) + 1]>> ELSE <<>>]

\* The person whose record is used: [found, person].  found = FALSE stands
\* for an exception inside the try block (np.argmax of an empty list, an
\* index out of range, a person without keypoints) and for selected_id None,
\* whose flat list of NaN makes line 443 raise as well.
PersonUsed(people, multi_person, selected_id) ==
    IF ~multi_person
    THEN IF people = <<>> THEN [found |-> FALSE, person |-> <<>>]
         ELSE LET bbox_area == [i \in 1..Len(people) |-> BBoxArea(people[i])]
                  max_area_person == people[ArgMaxFirst(bbox_area) + 1]
              IN  [found |-> max_area_person # <<>>, person |-> max_area_person]
    ELSE IF selected_id # <<>> /\ selected_id[1] < Len(people)
         THEN [found |-> people[selected_id[1] + 1] # <<>>, person |-> people[selected_id[1] + 1]]
         ELSE [found |-> FALSE, person |-> <<>>]

\* The row of one file: json_data after thresholding, or the all-NaN row of
\* the except branch.
convert_json2pandas(file, likelihood_threshold, multi_person, selected_id) ==
    IF ~file.ok THEN NanRecord
    ELSE LET used == PersonUsed(file.people, multi_person, selected_id)
         IN  IF used.found
             THEN RemoveLowConfidence(Keypoints(used.person), likelihood_threshold)
             ELSE NanRecord

\* ------------------------------------------------------------ interpolate_zeros_nans, bfill, ffill
\* A cell of a coordinate column is <<>> (NaN) or <<n, d>>, the number n / d
\* with d > 0, so that the values linear interpolation produces are exact.
\* mask: neither NaN nor exactly zero.
IsGood(cell) == cell # <<>> /\ cell[1] # 0

\* np.where(mask)[0], rows counted from 1.
IdxGood(col) == {t \in 1..Len(col) : IsGood(col[t])}

\* f_interp(t) for interp1d(idx_good, col[idx_good], kind='linear',
\* bounds_error=False): NaN outside the known samples, the sample itself at a
\* known row, the point of the segment between its two neighbours elsewhere.
Interp1d(col, t) ==
    LET G == IdxGood(col)
    IN  IF t < SetMin(G) \/ t > SetMax(G) THEN <<>>
        ELSE IF t \in G THEN col[t]
        ELSE LET g0 == SetMax({g \in G : g < t})
                 g1 == SetMin({g \in G : g > t})
                 y0 == col[g0]
                 y1 == col[g1]
             IN  << y0[1] * y1[2] * (g1 - t) + y1[1] * y0[2] * (t - g0),
                    y0[2] * y1[2] * (g1 - g0) >>

\* The column after interpolate_zeros_nans.  interp1d raises when it is
\* given fewer than min_entries samples, and the column is then returned as
\* it is.
interpolate_zeros_nans(col, min_entries) ==
    IF Cardinality(IdxGood(col)) < min_entries THEN col
    ELSE [t \in 1..Len(col) |-> IF IsGood(col[t]) THEN col[t] ELSE Interp1d(col, t)]

\* DataFrame.bfill() and .ffill() on one column: a NaN takes the next
\* (previous) value that is not NaN, when there is one.
Bfill(col) ==
    [t \in 1..Len(col) |->
        LET later == {u \in t..Len(col) : col[u] # <<>>}
        IN  IF later = {} THEN <<>> ELSE col[SetMin(later)]]

Ffill(col) ==
    [t \in 1..Len(col) |->
        LET earlier == {u \in 1..t : col[u] # <<>>}
        IN  IF earlier = {} THEN <<>> ELSE col[SetMax(earlier)]]

\* ------------------------------------------------------------ state
VARIABLES
    est_pc,      \* estimator alone: "call" before, "ret" after the call
    est_camx,    \* reference signal handed to time_lagged_cross_corr
    est_camy,    \* comparison signal
    est_lag,     \* lag_range (an int)
    est_out,     \* what the call returned
    config_dict,             \* the configuration of the run
    json_files_names,        \* per camera, the frame indices of its files, sorted
    pc,                      \* where synchronize_cams_all stands
    error,                   \* "none", or the error that ended the run
    search_around_frames,    \* per camera, <<start, end>>
    json_files_names_range,  \* per camera, the files inside its window
    selected_id_list,        \* per camera, <<id>> or <<>> (None)
    queried,                 \* cameras for which a person selection was requested, in order
    records_read,            \* cameras whose detection records have been read
    df_coords,               \* per camera, the row count of its coordinate table
    sum_speeds,              \* per camera, its motion signal
    ref_cam_id,              \* reference camera (0 before it is chosen)
    lag_range,               \* int(ref_frame_nb / 2)
    cam_list,                \* cameras still to be compared with the reference
    offset,                  \* the offset list under construction
    offset_cams,             \* for each entry of offset, the camera it was computed for
    published,               \* files copied to pose-sync
    remapped,                \* number of cameras whose files have been remapped
    fr_pc,         \* convert_json2pandas on one file: "call" before, "ret" after
    fr_file,       \* the content of the detection file
    fr_threshold,  \* likelihood_threshold
    fr_multi,      \* multi_person
    fr_selected,   \* selected_id: <<id>> or <<>> (None)
    fr_out,        \* the row appended to json_coords
    col_pc,        \* gap filling of one column: "call" before, "ret" after
    col_in,        \* the column of the coordinate table
    col_out        \* the column handed to the low-pass filter

estVars == <<est_pc, est_camx, est_camy, est_lag, est_out>>

runVars == <<config_dict, json_files_names, pc, error, search_around_frames,
             json_files_names_range, selected_id_list, queried, records_read, df_coords,
             sum_speeds, ref_cam_id, lag_range, cam_list, offset, offset_cams, published,
             remapped>>

frameVars == <<fr_pc, fr_file, fr_threshold, fr_multi, fr_selected, fr_out>>

colVars == <<col_pc, col_in, col_out>>

auxVars == <<frameVars, colVars>>

vars == <<estVars, runVars, auxVars>>

NoResult == [raised |-> FALSE, offset |-> 0, max_corr |-> NaNCorr]

EstIdle ==
    /\ est_pc = "idle"
    /\ est_camx = <<>>
    /\ est_camy = <<>>
    /\ est_lag = 0
    /\ est_out = NoResult

RunFresh ==
    /\ error = "none"
    /\ search_around_frames = <<>>
    /\ json_files_names_range = <<>>
    /\ selected_id_list = <<>>
    /\ queried = <<>>
    /\ records_read = {}
    /\ df_coords = <<>>
    /\ sum_speeds = <<>>
    /\ ref_cam_id = 0
    /\ lag_range = 0
    /\ cam_list = <<>>
    /\ offset = <<>>
    /\ offset_cams = <<>>
    /\ published = {}
    /\ remapped = 0

FrameIdle ==
    /\ fr_pc = "idle"
    /\ fr_file = [ok |-> FALSE, people |-> <<>>]
    /\ fr_threshold = 0
    /\ fr_multi = FALSE
    /\ fr_selected = <<>>
    /\ fr_out = <<>>

ColIdle ==
    /\ col_pc = "idle"
    /\ col_in = <<>>
    /\ col_out = <<>>

RunIdle ==
    /\ config_dict = [approx_kind |-> "auto", approx_time_maxspeed |-> <<>>, fps |-> 1,
                      time_range |-> 0, frame_range |-> <<>>,
                      keypoints_to_consider |-> "all", multi_person |-> FALSE]
    /\ json_files_names = <<>>
    /\ pc = "idle"
    /\ RunFresh

\* ------------------------------------------------------------ estimator alone
InitCorr ==
    /\ est_pc = "call"
    /\ est_camx \in SeqsUpTo(SignalValues, MaxLen)
    /\ est_camy \in SeqsUpTo(SignalValues, MaxLen)
    /\ est_lag \in 0..MaxLag
    /\ est_out = NoResult
    /\ RunIdle
    /\ FrameIdle
    /\ ColIdle

Estimate ==
    /\ est_pc = "call"
    /\ est_out' = time_lagged_cross_corr(est_camx, est_camy, est_lag)
    /\ est_pc' = "ret"
    /\ UNCHANGED <<est_camx, est_camy, est_lag, runVars, auxVars>>

NextCorr == Estimate

SpecCorr == InitCorr /\ [][NextCorr]_vars

\* ------------------------------------------------------------ one detection file
Triples == {<<pt[1], pt[2], c>> : pt \in Points, c \in Confidences}

\* A detected person: with one triple per keypoint, or without keypoints.
Persons == {<<>>} \cup [1..nb_coords -> Triples]

Files ==
    {[ok |-> FALSE, people |-> <<>>]}
        \cup {[ok |-> TRUE, people |-> ps] : ps \in SeqsUpTo(Persons, MaxPeople)}

\* selected_id: None, or an index, which may lie past the last person.
SelectedIds == {<<>>} \cup {<<id>> : id \in 0..MaxPeople}

InitFrame ==
    /\ fr_pc = "call"
    /\ fr_file \in Files
    /\ fr_threshold \in LikelihoodThresholds
    /\ fr_multi \in BOOLEAN
    /\ fr_selected \in (IF fr_multi THEN SelectedIds ELSE {<<>>})
    /\ fr_out = <<>>
    /\ EstIdle
    /\ RunIdle
    /\ ColIdle

ConvertFrame ==
    /\ fr_pc = "call"
    /\ fr_out' = convert_json2pandas(fr_file, fr_threshold, fr_multi, fr_selected)
    /\ fr_pc' = "ret"
    /\ UNCHANGED <<fr_file, fr_threshold, fr_multi, fr_selected, estVars, runVars, colVars>>

NextFrame == ConvertFrame

SpecFrame == InitFrame /\ [][NextFrame]_vars

\* ------------------------------------------------------------ one coordinate column
Cells == {<<>>} \cup {<<v, 1>> : v \in CoordValues}

\* The fewest samples interp1d accepts for kind = 'linear': 1 or 2, depending
\* on the installed scipy.
InterpMinEntries == {1, 2}

InitColumn ==
    /\ col_pc = "call"
    /\ col_in \in SeqsUpTo(Cells, MaxRows)
    /\ col_out = <<>>
    /\ EstIdle
    /\ RunIdle
    /\ FrameIdle

\* Lines 719-720 on one column.
FillColumn ==
    /\ col_pc = "call"
    /\ \E min_entries \in InterpMinEntries :
          col_out' = Ffill(Bfill(interpolate_zeros_nans(col_in, min_entries)))
    /\ col_pc' = "ret"
    /\ UNCHANGED <<col_in, estVars, runVars, frameVars>>

NextColumn == FillColumn

SpecColumn == InitColumn /\ [][NextColumn]_vars

\* ------------------------------------------------------------ synchronize_cams_all
\* A camera directory: files numbered consecutively from its first frame.
FileLists == {[k \in 1..count |-> first + k - 1] : first \in FirstFrames, count \in 1..MaxFrames}

\* project.frame_range: [] or [s, e].
FrameRanges == {<<>>} \cup {fr \in FirstFrames \X (1..MaxFrames) : fr[1] < fr[2]}

Configs ==
    {[approx_kind |-> "list", approx_time_maxspeed |-> t, fps |-> f,
      time_range |-> tr, frame_range |-> fr,
      keypoints_to_consider |-> k, multi_person |-> m] :
        t \in [Cams -> HalfSecondChoices], f \in FpsChoices, tr \in TimeRangeChoices,
        fr \in FrameRanges,
        k \in KeypointChoices, m \in BOOLEAN}
    \cup
    {[approx_kind |-> a, approx_time_maxspeed |-> <<>>, fps |-> f,
      time_range |-> tr, frame_range |-> fr,
      keypoints_to_consider |-> k, multi_person |-> m] :
        a \in {"auto", "other"}, f \in FpsChoices, tr \in TimeRangeChoices,
        fr \in FrameRanges,
        k \in KeypointChoices, m \in BOOLEAN}

Init ==
    /\ config_dict \in Configs
    /\ json_files_names \in [Cams -> FileLists]
    /\ pc = "windows"
    /\ RunFresh
    /\ EstIdle
    /\ FrameIdle
    /\ ColIdle

cam_nb == Len(json_files_names)

nb_frames_per_cam == NbFramesPerCam(json_files_names)

Raise(kind) ==
    /\ pc' = "error"
    /\ error' = kind

\* Lines 662-676: the frames to consider for each camera.
ResolveWindows ==
    /\ pc = "windows"
    /\ LET f_range == FRange(config_dict.frame_range, json_files_names)
           lag2 == config_dict.time_range * config_dict.fps
       IN  IF config_dict.approx_kind = "list"
           THEN /\ search_around_frames' =
                     [i \in 1..cam_nb |->
                        WindowAround(ApproxFrame(config_dict.fps, config_dict.approx_time_maxspeed[i]),
                                     lag2, nb_frames_per_cam[i], f_range[1])]
                /\ pc' = "files"
                /\ error' = error
           ELSE IF config_dict.approx_kind = "auto"
           THEN /\ search_around_frames' =
                     [i \in 1..cam_nb |-> WindowAuto(nb_frames_per_cam[i], f_range[1])]
                /\ pc' = "files"
                /\ error' = error
           ELSE /\ Raise("ConfigurationError")
                /\ search_around_frames' = search_around_frames
    /\ UNCHANGED <<config_dict, json_files_names, json_files_names_range, selected_id_list,
                   queried, records_read, df_coords, sum_speeds, ref_cam_id, lag_range,
                   cam_list, offset, offset_cams, published, remapped, estVars, auxVars>>

\* Lines 693-697: the files inside each window; none for some camera is fatal.
SelectFiles ==
    /\ pc = "files"
    /\ json_files_names_range' =
          [i \in 1..cam_nb |-> FilesInRange(json_files_names[i], search_around_frames[i])]
    /\ IF AnyEmpty(json_files_names_range')
       THEN Raise("DataAvailabilityError")
       ELSE pc' = "select" /\ error' = error
    /\ UNCHANGED <<config_dict, json_files_names, search_around_frames, selected_id_list,
                   queried, records_read, df_coords, sum_speeds, ref_cam_id, lag_range,
                   cam_list, offset, offset_cams, published, remapped, estVars, auxVars>>

\* Person indices the interactive selection can return.
PersonIds == {0}

\* The selection loop asking once per detection file of the window.
SelectPersonPerFrame ==
    /\ pc = "select"
    /\ config_dict.multi_person
    /\ LET i == Len(selected_id_list) + 1
       IN  /\ \E answer \in {<<>>} \cup {<<id>> : id \in PersonIds} :
                 selected_id_list' = Append(selected_id_list, answer)
           /\ queried' = queried \o [k \in 1..Len(json_files_names_range[i]) |-> i]
           /\ pc' = IF i = cam_nb THEN "series" ELSE "select"
    /\ UNCHANGED <<config_dict, json_files_names, error, search_around_frames,
                   json_files_names_range, records_read, df_coords, sum_speeds, ref_cam_id,
                   lag_range, cam_list, offset, offset_cams, published, remapped, estVars, auxVars>>

\* get_selected_id_list, multi_person, one pass of the loop of lines 250-386.
\* A camera without a video file, or whose video cannot be read at the first
\* frame of the window, gets None and nobody is asked.  Otherwise the
\* detection file of the window's first frame, when there is one, is read
\* outside any try block (lines 290-294): a file without 'people', or a
\* person without 'pose_keypoints_2d', raises KeyError and ends the run.
\* Otherwise the figure is shown and the answer is a person index or None.
SelectPerson ==
    /\ pc = "select"
    /\ config_dict.multi_person
    /\ LET i == Len(selected_id_list) + 1
           frame_number == search_around_frames[i][1]
           has_file == \E k \in 1..Len(json_files_names_range[i]) :
                          json_files_names_range[i][k] = frame_number
           after == IF i = cam_nb THEN "series" ELSE "select"
       IN  \/ /\ selected_id_list' = Append(selected_id_list, <<>>)
              /\ queried' = queried
              /\ pc' = after
              /\ error' = error
           \/ /\ has_file
              /\ Raise("KeyError")
              /\ UNCHANGED <<selected_id_list, queried>>
           \/ /\ \E answer \in {<<>>} \cup {<<id>> : id \in PersonIds} :
                    selected_id_list' = Append(selected_id_list, answer)
              /\ queried' = Append(queried, i)
              /\ pc' = after
              /\ error' = error
    /\ UNCHANGED <<config_dict, json_files_names, search_around_frames,
                   json_files_names_range, records_read, df_coords, sum_speeds, ref_cam_id,
                   lag_range, cam_list, offset, offset_cams, published, remapped, estVars, auxVars>>

\* get_selected_id_list, single person: [None] * cam_nb, nobody is asked.
SelectNobody ==
    /\ pc = "select"
    /\ ~config_dict.multi_person
    /\ selected_id_list' = [i \in 1..cam_nb |-> <<>>]
    /\ pc' = "series"
    /\ UNCHANGED <<config_dict, json_files_names, error, search_around_frames,
                   json_files_names_range, queried, records_read, df_coords, sum_speeds,
                   ref_cam_id, lag_range, cam_list, offset, offset_cams, published, remapped, estVars, auxVars>>

\* Lines 702-721, one pass of the loop: the camera's records are read into a
\* table with one row per file of its window, then keypoints_to_consider is
\* looked at, and any value but the four accepted ones raises.
BuildSeries ==
    /\ pc = "series"
    /\ LET i == Len(df_coords) + 1
       IN  /\ records_read' = records_read \cup {i}
           /\ IF KeypointsValid(config_dict.keypoints_to_consider)
              THEN /\ df_coords' = Append(df_coords, Len(json_files_names_range[i]))
                   /\ pc' = IF i = cam_nb THEN "speeds" ELSE "series"
                   /\ error' = error
              ELSE /\ Raise("ConfigurationError")
                   /\ df_coords' = df_coords
    /\ UNCHANGED <<config_dict, json_files_names, search_around_frames,
                   json_files_names_range, selected_id_list, queried, sum_speeds, ref_cam_id,
                   lag_range, cam_list, offset, offset_cams, published, remapped, estVars, auxVars>>

\* Lines 727-736, one pass of the loop: the camera's motion signal, one value
\* per row of its table.  The filtered sum of absolute speeds is not computed
\* here: any signal of that length may come out.
ComputeSpeed ==
    /\ pc = "speeds"
    /\ LET i == Len(sum_speeds) + 1
       IN  /\ \E sig \in [1..df_coords[i] -> SpeedValues] : sum_speeds' = Append(sum_speeds, sig)
           /\ pc' = IF i = cam_nb THEN "reference" ELSE "speeds"
    /\ UNCHANGED <<config_dict, json_files_names, error, search_around_frames,
                   json_files_names_range, selected_id_list, queried, records_read, df_coords,
                   ref_cam_id, lag_range, cam_list, offset, offset_cams, published, remapped, estVars, auxVars>>

\* Lines 741-747: the reference camera and the lag half-width.
ChooseReference ==
    /\ pc = "reference"
    /\ ref_cam_id' = RefCamId(nb_frames_per_cam)
    /\ lag_range' = df_coords[ref_cam_id'] \div 2
    /\ cam_list' = PopAt([i \in 1..cam_nb |-> i], ref_cam_id')
    /\ offset' = <<>>
    /\ offset_cams' = <<>>
    /\ pc' = IF cam_list' = <<>> THEN "insert" ELSE "offsets"
    /\ UNCHANGED <<config_dict, json_files_names, error, search_around_frames,
                   json_files_names_range, selected_id_list, queried, records_read, df_coords,
                   sum_speeds, published, remapped, estVars, auxVars>>

\* Lines 748-755, one pass of the loop: the next camera's offset.  An
\* exception inside time_lagged_cross_corr is not caught and ends the run.
EstimateOffset ==
    /\ pc = "offsets"
    /\ LET cam_id == Head(cam_list)
           res == time_lagged_cross_corr(sum_speeds[ref_cam_id], sum_speeds[cam_id], lag_range)
       IN  IF res.raised
           THEN /\ Raise("ValueError")
                /\ UNCHANGED <<offset, offset_cams, cam_list>>
           ELSE /\ offset' = Append(offset, OffsetCam(res.offset, search_around_frames[ref_cam_id],
                                                      search_around_frames[cam_id]))
                /\ offset_cams' = Append(offset_cams, cam_id)
                /\ cam_list' = Tail(cam_list)
                /\ pc' = IF cam_list' = <<>> THEN "insert" ELSE "offsets"
                /\ error' = error
    /\ UNCHANGED <<config_dict, json_files_names, search_around_frames,
                   json_files_names_range, selected_id_list, queried, records_read, df_coords,
                   sum_speeds, ref_cam_id, lag_range, published, remapped, estVars, auxVars>>

\* Line 756: the reference camera's 0 goes in at its own position.
InsertReference ==
    /\ pc = "insert"
    /\ offset' = InsertAt(offset, ref_cam_id, 0)
    /\ offset_cams' = InsertAt(offset_cams, ref_cam_id, ref_cam_id)
    /\ pc' = "publish"
    /\ UNCHANGED <<config_dict, json_files_names, error, search_around_frames,
                   json_files_names_range, selected_id_list, queried, records_read, df_coords,
                   sum_speeds, ref_cam_id, lag_range, cam_list, published, remapped, estVars, auxVars>>

\* Lines 761-768, one pass of the outer loop: every file of the next camera.
PublishCam ==
    /\ pc = "publish"
    /\ LET d == remapped + 1
       IN  /\ published' = published \cup PublishedOf(d, json_files_names[d], offset[d])
           /\ remapped' = d
           /\ pc' = IF d = cam_nb THEN "done" ELSE "publish"
    /\ UNCHANGED <<config_dict, json_files_names, error, search_around_frames,
                   json_files_names_range, selected_id_list, queried, records_read, df_coords,
                   sum_speeds, ref_cam_id, lag_range, cam_list, offset, offset_cams, estVars, auxVars>>

Next ==
    \/ ResolveWindows
    \/ SelectFiles
    \/ SelectPerson
    \/ SelectNobody
    \/ BuildSeries
    \/ ComputeSpeed
    \/ ChooseReference
    \/ EstimateOffset
    \/ InsertReference
    \/ PublishCam

Spec == Init /\ [][Next]_vars

\* ============================================================ properties
\* ------------------------------------------------------------ remapping
\* The new index a published file carries: int() of the digits of its name.
PublishedIndex(p) == ParseInt(p.name)

\* C1: for every camera d already remapped and every original file of d with
\* frame index n, a file is published for it in d's directory if and only if
\* n - offset[d] > 0, and then under exactly the index n - offset[d]; nothing
\* is published for a file whose new index is <= 0.
RemappingRule ==
    \A d \in 1..remapped :
        \A k \in 1..Len(json_files_names[d]) :
            LET n == json_files_names[d][k]
                copies == {p \in published : p.cam = d /\ p.src = n}
            IN  /\ (n - offset[d] > 0) <=> (copies # {})
                /\ \A p \in copies : PublishedIndex(p) = n - offset[d]

\* A finished run in which some camera has a non-zero offset, lost a file
\* to a non-positive new index and kept another one.
RemappingRuleWitness ==
    /\ pc = "done"
    /\ \E d \in 1..cam_nb :
          /\ offset[d] > 0
          /\ \E k \in 1..Len(json_files_names[d]) : json_files_names[d][k] - offset[d] < 0
          /\ \E p \in published : p.cam = d /\ PublishedIndex(p) = p.src - offset[d]

\* C2: when every camera's offset is 0, every original file of every camera
\* is published, under its original frame index.
RemappingIdempotence ==
    (pc = "done" /\ \A d \in 1..cam_nb : offset[d] = 0)
        => \A d \in 1..cam_nb :
              \A k \in 1..Len(json_files_names[d]) :
                  \E p \in published :
                      /\ p.cam = d
                      /\ p.src = json_files_names[d][k]
                      /\ PublishedIndex(p) = json_files_names[d][k]

\* ------------------------------------------------------------ offset vector
\* C3: once the offset list is assembled it has one entry per camera, entry d
\* is the one computed for camera d, the reference camera is the first camera
\* whose file count is the smallest, and the reference camera's entry is 0.
OffsetVectorInvariant ==
    pc \in {"publish", "done"}
        => /\ Len(offset) = cam_nb
           /\ offset_cams = [d \in 1..cam_nb |-> d]
           /\ \A j \in 1..cam_nb : Len(json_files_names[ref_cam_id]) <= Len(json_files_names[j])
           /\ \A j \in 1..(ref_cam_id - 1) :
                 Len(json_files_names[ref_cam_id]) < Len(json_files_names[j])
           /\ offset[ref_cam_id] = 0

\* An assembled vector whose reference camera is the first of two cameras
\* with equally few files, the other camera's offset being non-zero.
OffsetVectorWitness ==
    /\ pc = "publish"
    /\ ref_cam_id = 1
    /\ Len(json_files_names[1]) = Len(json_files_names[2])
    /\ offset[2] # 0

\* ------------------------------------------------------------ estimator
\* The correlations of the sweep of the call at hand.
est_r == PearsonR(est_camx, est_camy, est_lag)

est_lags == Lags(est_lag)

\* Position in the sweep of the first lag whose correlation is the largest
\* defined one.
FirstBest(r) ==
    CHOOSE i \in 1..Len(r) :
        /\ r[i].def
        /\ \A j \in 1..Len(r) : r[j].def => ~CorrLess(r[i], r[j])
        /\ \A j \in 1..(i - 1) : r[j].def => CorrLess(r[j], r[i])

\* C4: whenever at least one correlation of the sweep is defined, the call
\* returns the largest defined correlation and offset = -(l*), l* being the
\* first lag whose correlation equals that maximum, also when other lags of
\* the sweep have an undefined correlation.
EstimatorReturnsFirstBestLag ==
    (est_pc = "ret" /\ \E i \in 1..Len(est_r) : est_r[i].def)
        => /\ ~est_out.raised
           /\ CorrEq(est_out.max_corr, est_r[FirstBest(est_r)])
           /\ est_out.offset = 0 - est_lags[FirstBest(est_r)]

\* C5: whenever no lag of the sweep has a defined correlation (the empty
\* sweep included), the call returns offset 0 and correlation 0 and does not
\* raise.
DegenerateFallback ==
    (est_pc = "ret" /\ \A i \in 1..Len(est_r) : ~est_r[i].def)
        => /\ ~est_out.raised
           /\ est_out.offset = 0
           /\ est_out.max_corr = ZeroCorr

\* camy is camx delayed by k frames: same length, and every sample of camy
\* that has a source in camx is that source, k rows earlier.
IsDelayed(camx, camy, k) ==
    /\ Len(camy) = Len(camx)
    /\ \A t \in 1..Len(camx) : (t - k) \in 1..Len(camx) => camy[t] = camx[t - k]

\* The shifts k whose lag -k belongs to the sweep -L .. L-1.
ShiftsInWindow(L) == (1 - L)..L

\* Position of lag -k in the sweep.
LagPos(L, k) == L - k + 1

WindowsResolved == search_around_frames # <<>>

\* The files of each window have been listed.
FilesListed == json_files_names_range # <<>>

\* C7: with approx_time_maxspeed a list, camera i's window is
\* [max(0, a_i - lag), min(frame_count_i, a_i + lag)], a_i = int(fps * time_i)
\* and lag = time_range_around_maxspeed * fps, both ends cut to integers as
\* int() does; so its end never exceeds the camera's frame count and its
\* start is never negative, whatever frame_range is.
WindowFromApproxTimes ==
    (WindowsResolved /\ config_dict.approx_kind = "list")
        => \A i \in 1..cam_nb :
              LET a2 == 2 * ApproxFrame(config_dict.fps, config_dict.approx_time_maxspeed[i])
                  lag2 == config_dict.time_range * config_dict.fps
                  nb == Len(json_files_names[i])
              IN  /\ search_around_frames[i][1] = Max2(0, (a2 - lag2) \div 2)
                  /\ search_around_frames[i][2] = Min2(nb, (a2 + lag2) \div 2)
                  /\ search_around_frames[i][1] >= 0
                  /\ search_around_frames[i][2] <= nb

\* C8: with approx_time_maxspeed "auto" and frame_range configured as [s, e],
\* the files taking part in camera i's series are the camera's files with
\* index in [s, e): no frame index outside [s, e) takes part.
WindowAutoWithinFrameRange ==
    (FilesListed /\ config_dict.approx_kind = "auto" /\ config_dict.frame_range # <<>>)
        => \A i \in 1..cam_nb :
              json_files_names_range[i] =
                  SelectSeq(json_files_names[i],
                            LAMBDA n : /\ config_dict.frame_range[1] <= n
                                       /\ n < config_dict.frame_range[2])

\* C9: once the files of the windows are listed, a camera with no file in
\* its window means the run has ended in a data error with nobody asked for
\* a person, no table built and nothing published; and a run that went on
\* has at least one file in every window.
NonEmptyWindows ==
    FilesListed
        => IF \E i \in 1..cam_nb : Len(json_files_names_range[i]) = 0
           THEN /\ pc = "error"
                /\ error = "DataAvailabilityError"
                /\ queried = <<>>
                /\ selected_id_list = <<>>
                /\ records_read = {}
                /\ df_coords = <<>>
                /\ published = {}
           ELSE error # "DataAvailabilityError"

\* A run stopped by a data error although one camera has files in its window.
NonEmptyWindowsWitness ==
    /\ error = "DataAvailabilityError"
    /\ \E i \in 1..cam_nb : Len(json_files_names_range[i]) > 0
    /\ \E i \in 1..cam_nb : Len(json_files_names_range[i]) = 0

\* C10: a run that ends in a configuration error has asked nobody for a
\* person, has read no camera's detection records and has published nothing.
ConfigErrorsAbortBeforeProcessing ==
    error = "ConfigurationError"
        => /\ queried = <<>>
           /\ records_read = {}
           /\ published = {}

\* ------------------------------------------------------------ one detection file
\* The person whose record the call at hand uses.
fr_used == PersonUsed(fr_file.people, fr_multi, fr_selected)

\* The x and y cells of keypoint i in the returned row.
OutX(i) == fr_out[3 * (i - 1) + 1]

OutY(i) == fr_out[3 * (i - 1) + 2]

\* C11: in the row of a frame whose person was found, every keypoint whose
\* confidence is below the likelihood threshold has x and y both missing,
\* and every keypoint whose confidence is equal to or above the threshold
\* has x and y both kept; x is missing exactly when y is.
LikelihoodThresholding ==
    (fr_pc = "ret" /\ fr_file.ok /\ fr_used.found)
        => \A i \in 1..nb_coords :
              LET j == Keypoints(fr_used.person)[i]
              IN  /\ j[3] < fr_threshold => (OutX(i) = <<>> /\ OutY(i) = <<>>)
                  /\ j[3] >= fr_threshold => (OutX(i) = <<j[1]>> /\ OutY(i) = <<j[2]>>)
                  /\ (OutX(i) = <<>>) <=> (OutY(i) = <<>>)

\* ------------------------------------------------------------ records that cannot be used
\* C12: a file without detected people, a file whose detection lookup fails
\* and every file of a multi-person camera without a selected person stand
\* for an all-missing row, and none of them ends the run: no run is ever in
\* the error state that a failed detection lookup raises.
MissingRecordFallback == error # "KeyError"

\* ------------------------------------------------------------ offset composition
\* What the estimator returns for camera c against the reference camera.
SectionResult(c) == time_lagged_cross_corr(sum_speeds[ref_cam_id], sum_speeds[c], lag_range)

\* C13: in the assembled offset vector, the entry of every camera c other
\* than the reference camera is the estimator's offset for c against the
\* reference camera's motion signal, minus the difference between the
\* reference camera's window start and c's window start; also when the
\* estimator fell back to offset 0.
OffsetComposition ==
    pc \in {"publish", "done"}
        => \A c \in (1..cam_nb) \ {ref_cam_id} :
              offset[c] = SectionResult(c).offset
                              - (search_around_frames[ref_cam_id][1] - search_around_frames[c][1])

\* A finished run in which the estimator fell back to 0 for some camera,
\* every correlation of a non-empty sweep being undefined, and that
\* camera's window starts elsewhere than the reference camera's, so that its
\* entry is the non-zero difference of the window starts.
OffsetCompositionWitness ==
    /\ pc = "done"
    /\ lag_range >= 1
    /\ \E c \in (1..cam_nb) \ {ref_cam_id} :
          /\ IsNanAll(PearsonR(sum_speeds[ref_cam_id], sum_speeds[c], lag_range))
          /\ search_around_frames[ref_cam_id][1] # search_around_frames[c][1]
          /\ offset[c] = search_around_frames[c][1] - search_around_frames[ref_cam_id][1]
          /\ offset[c] # 0

\* ------------------------------------------------------------ single-person selection
\* The detected people of the file at hand who have keypoints.
WithKeypoints == {i \in 1..Len(fr_file.people) : fr_file.people[i] # <<>>}

\* Width x height of the box around the keypoints of person i.
KeypointArea(i) == BBoxArea(fr_file.people[i])

\* C14: in single-person mode, the row of a file with at least one detected
\* person with keypoints is the (thresholded) record of the person whose
\* keypoint bounding-box area is the largest, the lowest index winning among
\* people who share the largest area.
SinglePersonSelection ==
    (fr_pc = "ret" /\ fr_file.ok /\ ~fr_multi /\ WithKeypoints # {})
        => LET best == CHOOSE i \in WithKeypoints :
                          /\ \A j \in WithKeypoints : KeypointArea(j) <= KeypointArea(i)
                          /\ \A j \in WithKeypoints : j < i => KeypointArea(j) < KeypointArea(i)
           IN  fr_out = RemoveLowConfidence(Keypoints(fr_file.people[best]), fr_threshold)

\* ------------------------------------------------------------ one coordinate column
\* C15: whatever the column (a column that is entirely missing or has fewer
\* than 2 known samples included), after interpolation and backward/forward
\* fill no cell of the column handed to the low-pass filter is missing:
\* none is NaN and none is exactly zero.
NoMissingBeforeFiltering ==
    col_pc = "ret"
        => \A t \in 1..Len(col_out) : col_out[t] # <<>> /\ col_out[t][1] # 0

\* ------------------------------------------------------------ stage ordering
\* C16: in every step of every run, a request to the person selection is
\* for a camera not asked before and comes while no camera's records have
\* been read; a camera's series is built only once the selection is over
\* for every camera; an offset is estimated only once every camera has its
\* table and its motion signal; and files are published only once the
\* offset vector has one entry per camera.
StageOrdering ==
    [][ /\ queried' # queried
            => /\ records_read = {}
               /\ df_coords = <<>>
               /\ \E c \in 1..cam_nb :
                     /\ queried' = Append(queried, c)
                     /\ \A k \in 1..Len(queried) : queried[k] # c
        /\ (records_read' # records_read \/ df_coords' # df_coords)
            => /\ Len(selected_id_list) = cam_nb
               /\ queried' = queried
        /\ (offset' # offset /\ pc = "offsets")
            => /\ Len(df_coords) = cam_nb
               /\ Len(sum_speeds) = cam_nb
        /\ (published' # published \/ remapped' # remapped)
            => /\ Len(offset) = cam_nb
               /\ cam_list = <<>>
      ]_vars

\* A finished multi-person run in which every camera was asked for and
\* files were published.
StageOrderingWitness ==
    /\ pc = "done"
    /\ config_dict.multi_person
    /\ Len(queried) = cam_nb
    /\ published # {}

\* ------------------------------------------------------------ series shape
\* C17: every camera's coordinate table has as many rows as its resolved
\* window is long (window end - window start), also when the camera has no
\* file for some frame index of the window, and its motion signal has as
\* many rows as its table.
SeriesShape ==
    /\ \A i \in 1..Len(df_coords) :
          df_coords[i] = search_around_frames[i][2] - search_around_frames[i][1]
    /\ \A i \in 1..Len(sum_speeds) : Len(sum_speeds[i]) = df_coords[i]

\* ------------------------------------------------------------ bound on the offset
Abs(n) == IF n < 0 THEN 0 - n ELSE n

\* C18: for every pair of signals and every lag half-width L >= 1 the call
\* returns, without raising, an offset in -L+1 .. L that is the negation of
\* a lag of the sweep -L .. L-1; so when L is half the row count of the
\* reference signal, as in the batch run, the offset is at most half that
\* row count in absolute value.
OffsetBound ==
    (est_pc = "ret" /\ est_lag >= 1)
        => /\ ~est_out.raised
           /\ est_out.offset \in (1 - est_lag)..est_lag
           /\ \E i \in 1..Len(est_lags) : est_out.offset = 0 - est_lags[i]
           /\ est_lag = Len(est_camx) \div 2 => 2 * Abs(est_out.offset) <= Len(est_camx)

\* A call with L half the row count of the reference signal, L >= 2, whose
\* offset is the largest one allowed, L, the peak being a defined
\* correlation at lag -L.
OffsetBoundWitness ==
    /\ est_pc = "ret"
    /\ est_lag >= 2
    /\ est_lag = Len(est_camx) \div 2
    /\ est_r[1].def
    /\ est_out.offset = est_lag

====
